---- MODULE Spec2Model ----
(***************************************************************************)
(* Vigenere cipher (src/src/lib.rs): the alphabet mapper, the forward and  *)
(* inverse rotators, and the enc / dec loops, one action per loop          *)
(* iteration.  Characters are code points, strings are sequences of code   *)
(* points, u8 arithmetic keeps its 8-bit width.                            *)
(*                                                                         *)
(* An integer overflow in u8 arithmetic panics when the crate is built     *)
(* with overflow checks (the dev profile) and wraps otherwise (the release *)
(* profile); overflow_checks is chosen once, in Init, and both builds are  *)
(* explored.  A remainder by zero panics in every build.                   *)
(***************************************************************************)
EXTENDS Integers, Sequences, FiniteSets, TLC

VARIABLES
    overflow_checks, \* build profile: TRUE = overflow checks on (dev)
    pc,              \* "idle" | "loop" | "done" | "panic"
    op,              \* function being run: "none", "enc", "dec", or a rotator
    panic,           \* panic message, "none" while no panic happened
    key_vec,         \* enc/dec: key.chars().collect()
    key_length,      \* enc/dec: key_vec.len()
    val,             \* enc/dec: the text argument
    i,               \* enc/dec: enumerate() index of the next character
    return_val,      \* enc/dec: the output built so far
    orig,            \* text handed to the outermost call of a composition
    depth,           \* 0 idle, 1 outer call, 2 call applied to the outer result
    arg_i,           \* rotator call: first argument
    arg_amt,         \* rotator call: second argument
    res              \* rotator call: returned value

vars == <<overflow_checks, pc, op, panic, key_vec, key_length, val, i,
          return_val, orig, depth, arg_i, arg_amt, res>>

----------------------------------------------------------------------------
\* Bounds of the explored inputs.
MaxKeyLen == 2
MaxTextLen == 3

\* Program constants.
U8Range == 256
AsciiA == 65
AlphabetSize == 26

\* Code points used as inputs: B and Z are letters (positions 1 and 25, so
\* sums wrap and differences go negative); '1' lies below 'A', 'a' lies
\* above 'Z'.  The texts of the tests bring nine more letters.
Letters == {66, 90}
NonLetters == {49, 97}
Chars == Letters \cup NonLetters

\* Arguments of the direct rotator calls: every alphabet position, and
\* three u8 values outside it.
RotArgs == (0 .. 25) \cup {200, 240, 255}

SeqsUpTo(S, n) == UNION {[1 .. m -> S] : m \in 0 .. n}
Keys == SeqsUpTo(Chars, MaxKeyLen)
Texts == SeqsUpTo(Chars, MaxTextLen)

DUH == <<68, 85, 72>>
CRYPTO == <<67, 82, 89, 80, 84, 79>>
FLFSNV == <<70, 76, 70, 83, 78, 86>>
THEYDRINKTHETEA == <<84, 72, 69, 89, 68, 82, 73, 78, 75, 84, 72, 69, 84, 69, 65>>
WBLBXYLHRWBLWYH == <<87, 66, 76, 66, 88, 89, 76, 72, 82, 87, 66, 76, 87, 89, 72>>

----------------------------------------------------------------------------
\* `c as u8`: a char is cast to u8 by truncation to its low 8 bits.
AsU8(c) == c % U8Range

\* to_alpha_index: (*c as u8) - 65 in u8.
to_alpha_index_from_one(c) == (AsU8(c) - (AsciiA - 1)) % U8Range
to_alpha_index_panics(c) == overflow_checks /\ AsU8(c) < AsciiA
to_alpha_index(c) == (AsU8(c) - AsciiA) % U8Range

\* to_char: (i + 65) as char, the sum in u8.
to_char_panics(x) == overflow_checks /\ x + AsciiA >= U8Range
to_char_lowercase(x) == (x + AsciiA + 32) % U8Range
to_char(x) == (x + AsciiA) % U8Range

\* rotate_index: (i + amt) % 26, the sum in u8.
rotate_index_panics(x, amt) == overflow_checks /\ x + amt >= U8Range
rotate_index_no_wrap(x, amt) == (x + amt) % U8Range
rotate_index_mod_25(x, amt) == ((x + amt) % U8Range) % (AlphabetSize - 1)
rotate_index(x, amt) == ((x + amt) % U8Range) % AlphabetSize

\* f32::floor of the quotient a / n for n > 0.  |a| <= 255 and n = 26 are
\* exactly representable in f32, and a quotient that is not an integer lies
\* at least 1/26 away from the nearest integer, far more than the rounding
\* error of the f32 division, so the floor of the rounded quotient is the
\* floor of the exact one.
TruncOfQuotient(a, n) ==
    CHOOSE q \in -U8Range .. U8Range :
        IF a >= 0 THEN n * q <= a /\ a < n * (q + 1)
                  ELSE n * (q - 1) < a /\ a <= n * q
FloorOfQuotient(a, n) == CHOOSE q \in -U8Range .. U8Range : n * q <= a /\ a < n * (q + 1)

\* `x as u8` for a float x with an integral value: the cast saturates.
F32AsU8(x) == IF x < 0 THEN 0 ELSE IF x >= U8Range THEN U8Range - 1 ELSE x

\* The builtin remainder on i32, cast to u8 by truncation.
reverse_rotate_index_rem(x, amt) ==
    LET a == x - amt
    IN  IF a >= 0 THEN a % AlphabetSize
                  ELSE (U8Range - ((0 - a) % AlphabetSize)) % U8Range

\* reverse_rotate_index: a - n * floor(a / n) with a = i - amt computed in
\* i32 and n = 26; all intermediate values are small integers, exact in f32.
reverse_rotate_index(x, amt) ==
    LET a == x - amt
        n == AlphabetSize
    IN  F32AsU8(a - n * FloorOfQuotient(a, n))

----------------------------------------------------------------------------
Init ==
    /\ overflow_checks \in BOOLEAN
    /\ pc = "idle"
    /\ op = "none"
    /\ panic = "none"
    /\ key_vec = <<>>
    /\ key_length = 0
    /\ val = <<>>
    /\ i = 0
    /\ return_val = <<>>
    /\ orig = <<>>
    /\ depth = 0
    /\ arg_i = 0
    /\ arg_amt = 0
    /\ res = 0

RotUnchanged == UNCHANGED <<arg_i, arg_amt, res>>
CipherUnchanged == UNCHANGED <<key_vec, key_length, val, i, return_val, orig, depth>>

\* The key length checked by a remainder taken before the loop.
enc_begin_eager(k, t) ==
    /\ op' = "enc"
    /\ key_vec' = k
    /\ key_length' = Len(k)
    /\ val' = t
    /\ i' = 0
    /\ return_val' = <<>>
    /\ IF Len(k) = 0
         THEN /\ pc' = "panic"
              /\ panic' = "attempt to calculate the remainder with a divisor of zero"
         ELSE /\ pc' = "loop"
              /\ panic' = "none"

\* enc, lines 36-45: collect the key, take its length, start with an empty
\* output; the mapped iterator over val is lazy and evaluates nothing yet.
enc_begin(k, t) ==
    /\ op' = "enc"
    /\ key_vec' = k
    /\ key_length' = Len(k)
    /\ val' = t
    /\ i' = 0
    /\ return_val' = <<>>
    /\ pc' = "loop"
    /\ panic' = "none"

\* dec, lines 68-73.
dec_begin(k, t) ==
    /\ op' = "dec"
    /\ key_vec' = k
    /\ key_length' = Len(k)
    /\ val' = t
    /\ i' = 0
    /\ return_val' = <<>>
    /\ pc' = "loop"
    /\ panic' = "none"

\* i % key_length, the position in the key used for text position n.
key_index_clamped(n, len) == IF n < len THEN n ELSE len - 1
key_index(n, len) == n % len

\* A panic unwinds out of the call.
Raise(msg) ==
    /\ pc' = "panic"
    /\ panic' = msg
    /\ UNCHANGED <<i, return_val>>

PushFront(c) ==
    /\ return_val' = <<c>> \o return_val
    /\ i' = i + 1
    /\ UNCHANGED <<pc, panic>>

\* return_val.push(c), and the iterator advances.
Push(c) ==
    /\ return_val' = Append(return_val, c)
    /\ i' = i + 1
    /\ UNCHANGED <<pc, panic>>

\* One iteration of the for loop of enc, lines 48-64.  The iterator maps the
\* next character of val first, then the key is indexed.
EncStep ==
    /\ pc = "loop" /\ op = "enc" /\ i < Len(val)
    /\ IF to_alpha_index_panics(val[i + 1])
         THEN Raise("attempt to subtract with overflow")
       ELSE IF key_length = 0
         THEN Raise("attempt to calculate the remainder with a divisor of zero")
       ELSE LET a_i == to_alpha_index(val[i + 1])
                key_char == key_vec[key_index(i, key_length) + 1]
            IN  IF to_alpha_index_panics(key_char)
                  THEN Raise("attempt to subtract with overflow")
                ELSE LET shift_amt == to_alpha_index(key_char)
                     IN  IF rotate_index_panics(a_i, shift_amt)
                           THEN Raise("attempt to add with overflow")
                         ELSE LET index == rotate_index(a_i, shift_amt)
                              IN  IF to_char_panics(index)
                                    THEN Raise("attempt to add with overflow")
                                  ELSE Push(to_char(index))
    /\ UNCHANGED <<overflow_checks, op, key_vec, key_length, val, orig, depth>>
    /\ RotUnchanged

\* One iteration of the for loop of dec, lines 74-82.
DecStep ==
    /\ pc = "loop" /\ op = "dec" /\ i < Len(val)
    /\ IF to_alpha_index_panics(val[i + 1])
         THEN Raise("attempt to subtract with overflow")
       ELSE IF key_length = 0
         THEN Raise("attempt to calculate the remainder with a divisor of zero")
       ELSE LET a_i == to_alpha_index(val[i + 1])
                key_char == key_vec[key_index(i, key_length) + 1]
            IN  IF to_alpha_index_panics(key_char)
                  THEN Raise("attempt to subtract with overflow")
                ELSE LET shift_amt == to_alpha_index(key_char)
                         index == reverse_rotate_index(a_i, shift_amt)
                     IN  IF to_char_panics(index)
                           THEN Raise("attempt to add with overflow")
                         ELSE Push(to_char(index))
    /\ UNCHANGED <<overflow_checks, op, key_vec, key_length, val, orig, depth>>
    /\ RotUnchanged

\* enc, line 65: the iterator is exhausted, return_val is returned.
EncReturn ==
    /\ pc = "loop" /\ op = "enc" /\ i = Len(val)
    /\ pc' = "done"
    /\ UNCHANGED <<overflow_checks, op, panic, key_vec, key_length, val, i,
                   return_val, orig, depth>>
    /\ RotUnchanged

\* dec, line 84.
DecReturn ==
    /\ pc = "loop" /\ op = "dec" /\ i = Len(val)
    /\ pc' = "done"
    /\ UNCHANGED <<overflow_checks, op, panic, key_vec, key_length, val, i,
                   return_val, orig, depth>>
    /\ RotUnchanged

\* A call enc(key, val) on fresh arguments.
EncCall ==
    /\ pc = "idle"
    /\ \E k \in Keys, t \in Texts :
         /\ enc_begin(k, t)
         /\ orig' = t
    /\ depth' = 1
    /\ UNCHANGED overflow_checks
    /\ RotUnchanged

\* A call dec(key, val) on fresh arguments.
DecCall ==
    /\ pc = "idle"
    /\ \E k \in Keys, t \in Texts :
         /\ dec_begin(k, t)
         /\ orig' = t
    /\ depth' = 1
    /\ UNCHANGED overflow_checks
    /\ RotUnchanged

\* dec(key, enc(key, text)): dec is called with the same key on the text
\* enc returned.
DecOfEnc ==
    /\ pc = "done" /\ op = "enc" /\ depth = 1
    /\ dec_begin(key_vec, return_val)
    /\ depth' = 2
    /\ UNCHANGED <<overflow_checks, orig>>
    /\ RotUnchanged

\* enc(key, dec(key, text)).
EncOfDec ==
    /\ pc = "done" /\ op = "dec" /\ depth = 1
    /\ enc_begin(key_vec, return_val)
    /\ depth' = 2
    /\ UNCHANGED <<overflow_checks, orig>>
    /\ RotUnchanged

\* test_enc, lines 106-115: the two calls of enc with key "DUH".
test_enc ==
    /\ pc = "idle"
    /\ \E t \in {CRYPTO, THEYDRINKTHETEA} :
         /\ enc_begin(DUH, t)
         /\ orig' = t
    /\ depth' = 1
    /\ UNCHANGED overflow_checks
    /\ RotUnchanged

\* test_dec, lines 117-126: the two calls of dec with key "DUH".
test_dec ==
    /\ pc = "idle"
    /\ \E t \in {FLFSNV, WBLBXYLHRWBLWYH} :
         /\ dec_begin(DUH, t)
         /\ orig' = t
    /\ depth' = 1
    /\ UNCHANGED overflow_checks
    /\ RotUnchanged

\* A direct call rotate_index(i, amt), as in test_rotate_index.
RotateCall ==
    /\ pc = "idle"
    /\ \E x \in RotArgs, amt \in RotArgs :
         /\ arg_i' = x
         /\ arg_amt' = amt
         /\ op' = "rotate_index"
         /\ IF rotate_index_panics(x, amt)
              THEN /\ pc' = "panic"
                   /\ panic' = "attempt to add with overflow"
                   /\ res' = 0
              ELSE /\ pc' = "done"
                   /\ panic' = "none"
                   /\ res' = rotate_index(x, amt)
    /\ UNCHANGED overflow_checks
    /\ CipherUnchanged

\* A direct call reverse_rotate_index(i, amt).
ReverseCall ==
    /\ pc = "idle"
    /\ \E x \in RotArgs, amt \in RotArgs :
         /\ arg_i' = x
         /\ arg_amt' = amt
         /\ op' = "reverse_rotate_index"
         /\ pc' = "done"
         /\ panic' = "none"
         /\ res' = reverse_rotate_index(x, amt)
    /\ UNCHANGED overflow_checks
    /\ CipherUnchanged

\* reverse_rotate_index(rotate_index(i, amt), amt): what dec does to a
\* position enc produced.
ReverseOfRotate ==
    /\ pc = "done" /\ op = "rotate_index"
    /\ op' = "reverse_of_rotate"
    /\ res' = reverse_rotate_index(res, arg_amt)
    /\ UNCHANGED <<overflow_checks, pc, panic, arg_i, arg_amt>>
    /\ CipherUnchanged

Next ==
    \/ EncCall
    \/ DecCall
    \/ test_enc
    \/ test_dec
    \/ EncStep
    \/ DecStep
    \/ EncReturn
    \/ DecReturn
    \/ DecOfEnc
    \/ EncOfDec
    \/ RotateCall
    \/ ReverseCall
    \/ ReverseOfRotate

Spec == Init /\ [][Next]_vars

TypeOK ==
    /\ overflow_checks \in BOOLEAN
    /\ pc \in {"idle", "loop", "done", "panic"}
    /\ op \in {"none", "enc", "dec", "rotate_index", "reverse_rotate_index",
               "reverse_of_rotate"}
    /\ i \in 0 .. Len(val)
    /\ key_length = Len(key_vec)
    /\ depth \in 0 .. 2

----------------------------------------------------------------------------
\* Reference notions the properties are stated with, independent of the
\* arithmetic above.

\* The alphabet "ABCDEFGHIJKLMNOPQRSTUVWXYZ" as code points.
Alphabet ==
    <<65, 66, 67, 68, 69, 70, 71, 72, 73, 74, 75, 76, 77,
      78, 79, 80, 81, 82, 83, 84, 85, 86, 87, 88, 89, 90>>

Positions == 0 .. (Len(Alphabet) - 1)
IsLetter(c) == \E p \in Positions : Alphabet[p + 1] = c
Pos(c) == CHOOSE p \in Positions : Alphabet[p + 1] = c
LetterAt(p) == Alphabet[p + 1]
IsText(s) == \A k \in 1 .. Len(s) : IsLetter(s[k])

\* The residue in 0..25 of a difference a of two positions: the r with
\* a = 26 * q + r for some integer q.
Residue(a) ==
    CHOOSE r \in Positions : \E q \in -1 .. 0 : a = Len(Alphabet) * q + r

\* The key character paired with the j-th (1-based) text character.
KeyCharFor(j) == key_vec[((j - 1) % Len(key_vec)) + 1]

InCipher == op \in {"enc", "dec"} /\ pc \in {"loop", "done", "panic"}
Ended == pc \in {"done", "panic"}
ValidCall == InCipher /\ key_length > 0 /\ IsText(key_vec) /\ IsText(val)

\* The outcome a typed error e would be: the code has no such outcome.
TypedError(e) == pc = "error" /\ panic = e

----------------------------------------------------------------------------
\* C1: decrypt undoes encrypt.  For every non-empty key over A-Z and every
\* text over A-Z, enc does not fail, dec applied with the same key to the
\* text enc returned does not fail, and what dec returns is the original
\* text.
C1_DecUndoesEnc ==
    /\ (ValidCall /\ op = "enc" /\ depth = 1) => pc # "panic"
    /\ (ValidCall /\ op = "dec" /\ depth = 2 /\ IsText(orig)) =>
          /\ pc # "panic"
          /\ pc = "done" => return_val = orig

C1_Witness ==
    /\ op = "dec" /\ depth = 2 /\ pc = "done"
    /\ ValidCall /\ IsText(orig)
    /\ key_length = 2 /\ Len(orig) = 3
    /\ key_vec[1] # key_vec[2]
    /\ \A k \in 1 .. 3 : val[k] # orig[k]
    /\ return_val = orig

\* C2: encrypt undoes decrypt.  For every non-empty key over A-Z and every
\* text over A-Z, dec does not fail, enc applied with the same key to the
\* text dec returned does not fail, and what enc returns is the original
\* text.
C2_EncUndoesDec ==
    /\ (ValidCall /\ op = "dec" /\ depth = 1) => pc # "panic"
    /\ (ValidCall /\ op = "enc" /\ depth = 2 /\ IsText(orig)) =>
          /\ pc # "panic"
          /\ pc = "done" => return_val = orig

C2_Witness ==
    /\ op = "enc" /\ depth = 2 /\ pc = "done"
    /\ ValidCall /\ IsText(orig)
    /\ key_length = 2 /\ Len(orig) = 3
    /\ key_vec[1] # key_vec[2]
    /\ \A k \in 1 .. 3 : val[k] # orig[k]
    /\ return_val = orig

\* C3: enc computes the Vigenere reference with key cycling.  For a valid
\* non-empty key and a valid text, enc does not fail, every character it has
\* produced is the letter at position (pos(T[j]) + pos(K[j mod len K])) mod
\* 26, the returned text has one character per text character, and
\* enc("DUH", "CRYPTO") = "FLFSNV",
\* enc("DUH", "THEYDRINKTHETEA") = "WBLBXYLHRWBLWYH".
C3_EncIsVigenere ==
    (ValidCall /\ op = "enc") =>
       /\ pc # "panic"
       /\ pc = "done" => Len(return_val) = Len(val)
       /\ Len(return_val) <= Len(val)
       /\ \A j \in 1 .. Len(return_val) :
             return_val[j] =
                LetterAt((Pos(val[j]) + Pos(KeyCharFor(j))) % Len(Alphabet))
       /\ (pc = "done" /\ key_vec = DUH /\ val = CRYPTO) => return_val = FLFSNV
       /\ (pc = "done" /\ key_vec = DUH /\ val = THEYDRINKTHETEA) =>
             return_val = WBLBXYLHRWBLWYH

C3_Witness ==
    /\ op = "enc" /\ pc = "done" /\ depth = 1
    /\ key_vec = DUH /\ val = CRYPTO
    /\ return_val = FLFSNV

\* C4: dec computes the inverse Vigenere reference with key cycling.  For a
\* valid non-empty key and a valid text, dec does not fail, every character
\* it has produced is the letter at position (pos(C[j]) - pos(K[j mod len
\* K])) floor-mod 26, the returned text has one character per text
\* character, and dec("DUH", "FLFSNV") = "CRYPTO",
\* dec("DUH", "WBLBXYLHRWBLWYH") = "THEYDRINKTHETEA".
C4_DecIsInverseVigenere ==
    (ValidCall /\ op = "dec") =>
       /\ pc # "panic"
       /\ pc = "done" => Len(return_val) = Len(val)
       /\ Len(return_val) <= Len(val)
       /\ \A j \in 1 .. Len(return_val) :
             return_val[j] =
                LetterAt(Residue(Pos(val[j]) - Pos(KeyCharFor(j))))
       /\ (pc = "done" /\ key_vec = DUH /\ val = FLFSNV) => return_val = CRYPTO
       /\ (pc = "done" /\ key_vec = DUH /\ val = WBLBXYLHRWBLWYH) =>
             return_val = THEYDRINKTHETEA

C4_Witness ==
    /\ op = "dec" /\ pc = "done" /\ depth = 1
    /\ key_vec = DUH /\ val = WBLBXYLHRWBLWYH
    /\ return_val = THEYDRINKTHETEA

\* What one loop iteration of the running function makes of text character
\* c under key character k.
Transform(c, k) ==
    to_char(IF op = "enc"
              THEN rotate_index(to_alpha_index(c), to_alpha_index(k))
              ELSE reverse_rotate_index(to_alpha_index(c), to_alpha_index(k)))

\* C5: length and order are preserved.  For a valid non-empty key and a
\* valid text, in enc and in dec, after n iterations the output has exactly
\* n characters, the j-th of them being the transform of the j-th text
\* character, and the returned text has exactly len(T) characters.
C5_LengthAndOrder ==
    ValidCall =>
       /\ pc # "panic"
       /\ Len(return_val) = i
       /\ i <= Len(val)
       /\ pc = "done" => Len(return_val) = Len(val)
       /\ \A j \in 1 .. Len(return_val) :
             return_val[j] = Transform(val[j], KeyCharFor(j))

C5_Witness ==
    /\ ValidCall /\ pc = "done" /\ op = "dec" /\ depth = 1
    /\ Len(val) = 3 /\ Len(return_val) = 3
    /\ key_length = 2 /\ key_vec[1] # key_vec[2]
    /\ val[1] # val[3]
    /\ return_val[1] # return_val[3]

\* C6: empty text yields empty output regardless of key.  Whatever the key
\* (empty, or holding characters outside A-Z), enc and dec called on the
\* empty text do not fail and return the empty text.
C6_EmptyText ==
    (InCipher /\ val = <<>>) =>
       /\ pc # "panic"
       /\ return_val = <<>>

C6_Witness ==
    /\ op = "dec" /\ depth = 2 /\ pc = "done"
    /\ key_vec = <<>> /\ val = <<>> /\ orig = <<>>
    /\ return_val = <<>>

\* C7: an empty key is rejected with a defined EmptyKey error.  For every
\* non-empty text, a call of enc or dec with the empty key ends in a typed
\* EmptyKey error, not in a panic and not in a returned text.
C7_EmptyKeyRejected ==
    (InCipher /\ Ended /\ key_length = 0 /\ Len(val) > 0) =>
       TypedError("EmptyKey")

\* C8: invalid characters are reported, never silently transformed.
\* Whenever the key or the text of a call of enc or dec holds a character
\* outside A-Z, the call ends in a typed InvalidCharacter error, and no
\* output character is ever computed from a position outside 0..25.  (A
\* call on the empty text reads no character at all, see C6, and the empty
\* key is the case of C7; the property is stated for the remaining calls.)
C8_InvalidCharacterReported ==
    /\ (InCipher /\ Ended /\ Len(val) > 0 /\ key_length > 0
           /\ ~(IsText(key_vec) /\ IsText(val))) =>
          TypedError("InvalidCharacter")
    /\ (InCipher /\ key_length > 0) =>
          \A j \in 1 .. Len(return_val) :
             /\ to_alpha_index(val[j]) \in Positions
             /\ to_alpha_index(KeyCharFor(j)) \in Positions

\* C9: the inverse rotator is a floor modulo.  For i and amt in 0..25,
\* reverse_rotate_index(i, amt) returns the residue of i - amt in 0..25
\* (i - amt + 26 when amt > i, so reverse_rotate_index(0, 1) = 25), and
\* reverse_rotate_index(rotate_index(i, amt), amt) = i.
C9_ReverseIsFloorMod ==
    (arg_i \in Positions /\ arg_amt \in Positions) =>
       /\ op = "reverse_rotate_index" =>
             /\ pc = "done"
             /\ res \in Positions
             /\ res = Residue(arg_i - arg_amt)
             /\ arg_amt > arg_i => res = arg_i - arg_amt + Len(Alphabet)
             /\ (arg_i = 0 /\ arg_amt = 1) => res = 25
       /\ op = "reverse_of_rotate" => (pc = "done" /\ res = arg_i)

C9_Witness ==
    /\ op = "reverse_rotate_index" /\ pc = "done"
    /\ arg_i = 0 /\ arg_amt = 1
    /\ res = 25

\* C10: the forward rotator wraps circularly.  For i and amt in 0..25,
\* rotate_index(i, amt) returns (i + amt) mod 26, in 0..25 (so
\* rotate_index(25, 1) = 0), and the u8 sum i + amt does not overflow: the
\* call panics in no build.
C10_RotateWraps ==
    (op = "rotate_index" /\ arg_i \in Positions /\ arg_amt \in Positions) =>
       /\ pc = "done" /\ panic = "none"
       /\ arg_i + arg_amt < U8Range
       /\ res \in Positions
       /\ res = IF arg_i + arg_amt >= Len(Alphabet)
                  THEN arg_i + arg_amt - Len(Alphabet)
                  ELSE arg_i + arg_amt
       /\ (arg_i = 25 /\ arg_amt = 1) => res = 0

C10_Witness ==
    /\ op = "rotate_index" /\ pc = "done"
    /\ arg_i = 25 /\ arg_amt = 1
    /\ res = 0
====
